---- MODULE Spec2Model ----
(***************************************************************************)
(* Orchestration core of src/orchestrators/base_orchestrator.py: several   *)
(* BaseOrchestrator instances sharing one Redis store.  Every Redis        *)
(* command is one atomic step.  Inside one instance the asyncio event loop *)
(* is cooperative: heartbeat_loop and shutdown run only while the task     *)
(* loop is suspended at an await that really yields, and, having no yield  *)
(* of their own between Redis commands, keep the event loop until done.    *)
(* Timestamps are kept as ages (now - timestamp), in steps of the          *)
(* heartbeat timeout, saturating one step past the timeout: the code only  *)
(* ever compares an age with the timeout.  One clock step is three         *)
(* heartbeat intervals, so heartbeat_loop's sleep puts no bound on the     *)
(* iterations between two steps and is not counted.  A stopped process     *)
(* keeps nothing: its loop positions are reset when it stops.              *)
(***************************************************************************)
(* Instances and task ids are alike but for their names: registrations and *)
(* submissions are taken in one order.                                     *)
(***************************************************************************)
EXTENDS Integers, Sequences, FiniteSets, TLC

Orchs == {"A", "B", "C"}
Tasks == {"t1", "t2"}
None == "none"
\* hget of a field that was never written returns nothing
NoStamp == -1

heartbeat_timeout == 30
\* The clock advances by TickLen; ages beyond the timeout are indistinguishable
\* to check_orchestrator_health and saturate at AgeCap.
TickLen == heartbeat_timeout
AgeCap == heartbeat_timeout + TickLen

\* Redis I/O exceptions injected into the task loop, in total.
MaxFaults == 1
\* Results pushed onto the terminal queues, in total.
MaxResults == 3

VARIABLES
  submitted,       \* task ids a producer has pushed onto tasks:pending
  pending,         \* list tasks:pending (head first)
  processing,      \* [orch -> list tasks:processing:<orch>]
  completed,       \* list tasks:completed of results (their task_id)
  review,          \* list tasks:review
  failed,          \* list tasks:failed
  active,          \* set orchestrators:active
  started,         \* age of field 'started' of hash orchestrators:<orch>
  last_heartbeat,  \* age of field 'last_heartbeat' of that hash, or NoStamp
  st,              \* process state: new, up, stopping, crashed, down
  pc,              \* position of process_tasks
  cur,             \* task_json held in memory by process_tasks
  hpc,             \* position of heartbeat_loop
  scanSet,         \* members of the smembers snapshot still to be examined
  victim,          \* failed_orch_id of the running handle_orchestrator_failure
  faults,          \* I/O exceptions raised since the start of the run
  \* one call of process_task_through_waves and handle_task_results
  loaded,          \* keys of self.agents
  wpos,            \* position of the two nested for loops, in AgentOrder
  phase,           \* idle, waves, handle, done
  waves,           \* results['waves'], by agent; Absent for no entry
  context,         \* agents a with a key wave_<n>_<a> in the context dict
  called,          \* the agents whose analyze was awaited, in order
  passed,          \* [agent -> keys of the context its analyze was given]
  check,           \* results['thermopylae_check']
  tdai,            \* results['tdai_score'] in thousandths, or NoScore
  pushes,          \* destination queues of the lpush commands of the call
  \* one agent instance, as load_agents keeps it in self.agents
  pattern_tracker, \* self.pattern_tracker: [pattern key -> count]
  text,            \* the transcript of the last analyze call
  outcome,         \* what the last analyze call returned, or that it raised
  calls,           \* analyze calls on the instance so far
  \* one call of monitor_batch
  seen,            \* the local sets completed, review, failed
  mpc              \* position of monitor_batch

vars == <<submitted, pending, processing, completed, review, failed, active,
          started, last_heartbeat, st, pc, cur, hpc, scanSet, victim,
          faults, loaded, wpos, phase, waves, context, called, passed, check,
          tdai, pushes, pattern_tracker, text, outcome, calls, seen, mpc>>

storeVars == <<pending, processing, completed, review, failed>>
regVars == <<active, started, last_heartbeat>>
loopVars == <<pc, cur>>
hbVars == <<hpc, scanSet, victim>>
pipeVars == <<loaded, wpos, phase, waves, context, called, passed, check, tdai,
              pushes>>
orchVars == <<submitted, storeVars, regVars, st, loopVars, hbVars, faults>>
agentVars == <<pattern_tracker, text, outcome, calls>>
monVars == <<seen, mpc>>

----------------------------------------------------------------------------
(* Redis list primitives *)

LPush(q, x) == <<x>> \o q

RPopValue(q) == q[Len(q)]

RPopRest(q) == SubSeq(q, 1, Len(q) - 1)

RECURSIVE LRem(_, _)
\* lrem(key, 1, x): remove the first occurrence of x, scanning from the head
LRem(q, x) ==
  IF q = <<>> THEN <<>>
  ELSE IF Head(q) = x THEN Tail(q)
  ELSE <<Head(q)>> \o LRem(Tail(q), x)

Count(q, x) == Cardinality({k \in 1..Len(q) : q[k] = x})

Elems(q) == {q[k] : k \in 1..Len(q)}

----------------------------------------------------------------------------
(* Agents, waves and agent results *)

\* self.agent_waves: wave number -> agent names, in list order
agent_waves ==
  [n \in 1..4 |->
     CASE n = 1 -> <<"forensic_accuracy", "verbatim_preservation">>
       [] n = 2 -> <<"emotional_intelligence", "somatic_awareness",
                     "therapeutic_alliance", "attachment_dynamics",
                     "safety_trust", "unconscious_communication",
                     "cultural_context", "clinical_terminology",
                     "narrative_coherence", "research_connector",
                     "gaps_identifier">>
       [] n = 3 -> <<"academic_rigor", "scientific_validation",
                     "action_research_validator",
                     "semantic_weaponization_detector",
                     "trauma_pattern_validator">>
       [] n = 4 -> <<"integration_synthesis">>]

\* The waves taken in the order of their size, not of their number.
\* Variant for testing WaveBarrier.
AgentOrderBySize ==
  agent_waves[4] \o agent_waves[1] \o agent_waves[3] \o agent_waves[2]

\* for wave_num in sorted(self.agent_waves.keys()):
\*   for agent_name in self.agent_waves[wave_num]: the order of the iterations
AgentOrder ==
  agent_waves[1] \o agent_waves[2] \o agent_waves[3] \o agent_waves[4]

Agents == Elems(AgentOrder)

\* the wave an agent is listed in
WaveOf(a) == CHOOSE n \in DOMAIN agent_waves : a \in Elems(agent_waves[n])

\* the place of an agent in the order of the iterations
Place(a) == CHOOSE k \in 1..Len(AgentOrder) : AgentOrder[k] = a

\* the agents of the iterations before that of agent a
Before(a) == {AgentOrder[k] : k \in 1..(Place(a) - 1)}

\* self.thermopylae_agents
detector == "semantic_weaponization_detector"
validator == "trauma_pattern_validator"

\* a result without a 'confidence' key
NoConf == -1
\* results without a 'tdai_score' yet
NoScore == -1

\* An agent result: confidence in tenths (0.0 .. 1.0), findings by their
\* line_number.  Absent stands for no entry in the waves map.
Absent == [kind |-> "absent", confidence |-> NoConf, findings |-> <<>>]
\* {'error': str(e)}
ErrorStub == [kind |-> "error", confidence |-> NoConf, findings |-> <<>>]
Ok(c, f) == [kind |-> "ok", confidence |-> c, findings |-> f]

\* results['thermopylae_check'] before the cross-validation
NoCheck == [status |-> "none", disagreements |-> <<>>]

\* no call of process_task_through_waves is looked at
PipeIdle ==
  /\ loaded = {}
  /\ wpos = 1
  /\ phase = "idle"
  /\ waves = [a \in Agents |-> Absent]
  /\ context = {}
  /\ called = <<>>
  /\ passed = [a \in Agents |-> {}]
  /\ check = NoCheck
  /\ tdai = NoScore
  /\ pushes = <<>>

----------------------------------------------------------------------------
(* one agent instance: the data of analyze *)

\* pattern keys "<category>:<term>" of two vocabulary terms
PatternKeys == {"accessible:pattern", "technical:diagnosis"}

NoText == [valid |-> "none", hits |-> [k \in PatternKeys |-> 0], clarity |-> 0]
NoOutcome ==
  [kind |-> "none", findings |-> [k \in PatternKeys |-> 0], patterns |-> {},
   confidence |-> 0]
\* validate_input raised ValueError and analyze let it pass
Raised ==
  [kind |-> "raised", findings |-> [k \in PatternKeys |-> 0], patterns |-> {},
   confidence |-> 0]

\* a fresh instance: self.pattern_tracker = {}
AgentIdle ==
  /\ pattern_tracker = [k \in PatternKeys |-> 0]
  /\ text = NoText
  /\ outcome = NoOutcome
  /\ calls = 0

\* the queues monitor_batch reads, in the order of its for loop
QueueOrder == <<"completed", "review", "failed">>

\* no monitor_batch is running
MonitorIdle ==
  /\ seen = [q \in Elems(QueueOrder) |-> {}]
  /\ mpc = "off"

----------------------------------------------------------------------------
StoreIdle ==
  /\ submitted = {}
  /\ pending = <<>>
  /\ processing = [o \in Orchs |-> <<>>]
  /\ completed = <<>>
  /\ review = <<>>
  /\ failed = <<>>
  /\ active = {}
  /\ started = [o \in Orchs |-> NoStamp]
  /\ last_heartbeat = [o \in Orchs |-> NoStamp]
  /\ st = [o \in Orchs |-> "new"]
  /\ pc = [o \in Orchs |-> "claim"]
  /\ cur = [o \in Orchs |-> None]
  /\ hpc = [o \in Orchs |-> "sleep"]
  /\ scanSet = [o \in Orchs |-> {}]
  /\ victim = [o \in Orchs |-> None]
  /\ faults = 0

Init == StoreIdle /\ PipeIdle /\ AgentIdle /\ MonitorIdle

----------------------------------------------------------------------------
(* Producer: process_batch / process_transcript push a task with a fresh uuid *)

TaskOrder == <<"t1", "t2">>
OrchOrder == <<"A", "B", "C">>

Submit(t) ==
  /\ t \notin submitted
  /\ t = TaskOrder[Cardinality(submitted) + 1]
  /\ submitted' = submitted \cup {t}
  /\ pending' = LPush(pending, t)
  /\ UNCHANGED <<processing, completed, review, failed, regVars, st, loopVars,
                 hbVars, faults>>

----------------------------------------------------------------------------
(* start(): register, then the heartbeat task is created and process_tasks runs *)

Register(i) ==
  /\ st[i] = "new"
  /\ \A k \in 1..Len(OrchOrder) :
       OrchOrder[k] = i => \A j \in 1..(k - 1) : st[OrchOrder[j]] # "new"
  /\ st' = [st EXCEPT ![i] = "up"]
  /\ started' = [started EXCEPT ![i] = 0]
  /\ active' = active \cup {i}
  /\ UNCHANGED <<submitted, storeVars, last_heartbeat, loopVars, hbVars, faults>>

\* The task loop runs unless the heartbeat iteration holds the event loop.
LoopRuns(i) == st[i] = "up" /\ hpc[i] = "sleep"

\* process_tasks is suspended at an await that yields to the event loop:
\* inside agent.analyze (line 234) or in the backoff sleep (line 211).
AtYield(i) == st[i] = "up" /\ pc[i] \in {"work", "backoff"}

----------------------------------------------------------------------------
(* process_tasks: the main task loop *)

\* A claim that copies: the task stays on pending (a non-atomic get-then-push
\* whose pop is missing).  Variant for testing OneOwner.
ClaimNoPop(i) ==
  /\ LoopRuns(i) /\ pc[i] = "claim"
  /\ pending # <<>>
  /\ processing' = [processing EXCEPT ![i] = LPush(@, RPopValue(pending))]
  /\ cur' = [cur EXCEPT ![i] = RPopValue(pending)]
  /\ pc' = [pc EXCEPT ![i] = "work"]
  /\ UNCHANGED <<submitted, pending, completed, review, failed, regVars, st,
                 hbVars, faults>>

\* brpoplpush(pending, processing:<i>): the claim, one atomic list-to-list move
Claim(i) ==
  /\ LoopRuns(i) /\ pc[i] = "claim"
  /\ pending # <<>>
  /\ pending' = RPopRest(pending)
  /\ processing' = [processing EXCEPT ![i] = LPush(@, RPopValue(pending))]
  /\ cur' = [cur EXCEPT ![i] = RPopValue(pending)]
  /\ pc' = [pc EXCEPT ![i] = "work"]
  /\ UNCHANGED <<submitted, completed, review, failed, regVars, st, hbVars,
                 faults>>

\* brpoplpush times out on an empty pending list: task_json is None, loop again
ClaimEmpty(i) ==
  /\ LoopRuns(i) /\ pc[i] = "claim"
  /\ pending = <<>>
  /\ UNCHANGED vars

AcceptThreshold == 80
PublishThreshold == 85
\* composite scores in tenths, on both sides of each threshold
ScoreSamples == {0, 79, 80, 84, 85, 100}
Statuses == {"clear", "review_required", "incomplete"}

\* A destination by the score alone, the status looked at only below the
\* threshold.  Variant for testing Routing.
DestinationByScore(status, score) ==
  IF score >= AcceptThreshold THEN "completed" ELSE "review"

\* handle_task_results: the destination queue
Destination(status, score) ==
  IF status = "review_required" THEN "review"
  ELSE IF score < AcceptThreshold THEN "review"
  ELSE "completed"

\* the result record, by its task_id
Result(i) == cur[i]

\* process_task_through_waves has returned; handle_task_results computes the
\* destination and does lpush(destination, result_json); a vocabulary update
\* follows when the score is high and some strong pattern exists
Route(i, status, score, hasUpdates) ==
  /\ LoopRuns(i) /\ pc[i] = "work"
  /\ Len(completed) + Len(review) + Len(failed) < MaxResults
  /\ completed' = IF Destination(status, score) = "completed"
                  THEN LPush(completed, Result(i)) ELSE completed
  /\ review' = IF Destination(status, score) = "review"
               THEN LPush(review, Result(i)) ELSE review
  /\ pc' = [pc EXCEPT ![i] = IF score >= PublishThreshold /\ hasUpdates
                             THEN "publish" ELSE "lrem"]
  /\ UNCHANGED <<submitted, pending, processing, failed, regVars, st, cur,
                 hbVars, faults>>

\* redis publish on vocabulary:updates
Publish(i) ==
  /\ LoopRuns(i) /\ pc[i] = "publish"
  /\ pc' = [pc EXCEPT ![i] = "lrem"]
  /\ UNCHANGED <<submitted, storeVars, regVars, st, cur, hbVars, faults>>

\* lrem(processing:<i>, 1, task_json), then the next iteration
Lrem(i) ==
  /\ LoopRuns(i) /\ pc[i] = "lrem"
  /\ processing' = [processing EXCEPT ![i] = LRem(@, cur[i])]
  /\ pc' = [pc EXCEPT ![i] = "claim"]
  /\ cur' = [cur EXCEPT ![i] = None]
  /\ UNCHANGED <<submitted, pending, completed, review, failed, regVars, st,
                 hbVars, faults>>

\* a Redis command of the task loop raises (brpoplpush, lpush, publish, lrem):
\* except Exception, log, asyncio.sleep(1)
IOError(i) ==
  /\ LoopRuns(i) /\ pc[i] \in {"claim", "work", "publish", "lrem"}
  /\ faults < MaxFaults
  /\ faults' = faults + 1
  /\ pc' = [pc EXCEPT ![i] = "backoff"]
  /\ cur' = [cur EXCEPT ![i] = None]
  /\ UNCHANGED <<submitted, storeVars, regVars, st, hbVars>>

\* asyncio.sleep(1) is over: the while loop claims the next task
Backoff(i) ==
  /\ LoopRuns(i) /\ pc[i] = "backoff"
  /\ pc' = [pc EXCEPT ![i] = "claim"]
  /\ UNCHANGED <<submitted, storeVars, regVars, st, cur, hbVars, faults>>

----------------------------------------------------------------------------
(* heartbeat_loop, check_orchestrator_health, handle_orchestrator_failure *)

\* asyncio.sleep is over while the task loop is suspended:
\* hset(orchestrators:<i>, last_heartbeat, now)
HbWrite(i) ==
  /\ AtYield(i) /\ hpc[i] = "sleep"
  /\ last_heartbeat' = [last_heartbeat EXCEPT ![i] = 0]
  /\ hpc' = [hpc EXCEPT ![i] = "smembers"]
  /\ UNCHANGED <<submitted, storeVars, active, started, st, loopVars, scanSet,
                 victim, faults>>

\* smembers(orchestrators:active)
HbSmembers(i) ==
  /\ st[i] = "up" /\ hpc[i] = "smembers"
  /\ scanSet' = [scanSet EXCEPT ![i] = active]
  /\ hpc' = [hpc EXCEPT ![i] = "scan"]
  /\ UNCHANGED <<submitted, storeVars, regVars, st, loopVars, victim, faults>>

\* the for loop skips the scanning instance itself
ScanTargets(i) == {o \in scanSet[i] : o # i}

\* Any recorded heartbeat taken for an old one: the comparison with the
\* timeout is missing.  Variant for testing ScanGuard.
AnyHeartbeat(o) == last_heartbeat[o] # NoStamp

\* last_heartbeat_str is set and now - last_heartbeat > heartbeat_timeout
AppearsDown(o) ==
  /\ last_heartbeat[o] # NoStamp
  /\ last_heartbeat[o] > heartbeat_timeout

\* one iteration of the for loop: hget and the comparison
HbScan(i, o) ==
  /\ st[i] = "up" /\ hpc[i] = "scan"
  /\ o \in ScanTargets(i)
  /\ scanSet' = [scanSet EXCEPT ![i] = @ \ {o}]
  /\ IF AppearsDown(o)
     THEN /\ victim' = [victim EXCEPT ![i] = o]
          /\ hpc' = [hpc EXCEPT ![i] = "drain"]
     ELSE UNCHANGED <<victim, hpc>>
  /\ UNCHANGED <<submitted, storeVars, regVars, st, loopVars, faults>>

\* the for loop is over: back to asyncio.sleep(heartbeat_interval)
HbScanDone(i) ==
  /\ st[i] = "up" /\ hpc[i] = "scan"
  /\ ScanTargets(i) = {}
  /\ scanSet' = [scanSet EXCEPT ![i] = {}]
  /\ hpc' = [hpc EXCEPT ![i] = "sleep"]
  /\ UNCHANGED <<submitted, storeVars, regVars, st, loopVars, victim, faults>>

\* A move that forgets the push: rpop only.  Variant for testing RequeuedOnce.
RPopOnly(src) ==
  /\ processing[src] # <<>>
  /\ pending' = pending
  /\ processing' = [processing EXCEPT ![src] = RPopRest(@)]

\* rpoplpush(tasks:processing:<src>, tasks:pending) on a non-empty source
RPopLPush(src) ==
  /\ processing[src] # <<>>
  /\ pending' = LPush(pending, RPopValue(processing[src]))
  /\ processing' = [processing EXCEPT ![src] = RPopRest(@)]

\* A drain that reads the tail and pushes it without removing it (lindex
\* and lpush).  Variant for testing DoubleDrain.
DrainCopy(i) ==
  /\ st[i] = "up" /\ hpc[i] = "drain"
  /\ IF processing[victim[i]] # <<>>
     THEN /\ pending' = LPush(pending, RPopValue(processing[victim[i]]))
          /\ UNCHANGED <<processing, hpc>>
     ELSE /\ hpc' = [hpc EXCEPT ![i] = "srem"]
          /\ UNCHANGED <<pending, processing>>
  /\ UNCHANGED <<submitted, completed, review, failed, regVars, st, loopVars,
                 scanSet, victim, faults>>

\* handle_orchestrator_failure: one rpoplpush of the while loop
Drain(i) ==
  /\ st[i] = "up" /\ hpc[i] = "drain"
  /\ IF processing[victim[i]] # <<>>
     THEN /\ RPopLPush(victim[i])
          /\ UNCHANGED hpc
     ELSE /\ hpc' = [hpc EXCEPT ![i] = "srem"]
          /\ UNCHANGED <<pending, processing>>
  /\ UNCHANGED <<submitted, completed, review, failed, regVars, st, loopVars,
                 scanSet, victim, faults>>

\* srem(orchestrators:active, failed_orch_id), then the for loop goes on
Srem(i) ==
  /\ st[i] = "up" /\ hpc[i] = "srem"
  /\ active' = active \ {victim[i]}
  /\ victim' = [victim EXCEPT ![i] = None]
  /\ hpc' = [hpc EXCEPT ![i] = "scan"]
  /\ UNCHANGED <<submitted, storeVars, started, last_heartbeat, st, loopVars,
                 scanSet, faults>>

----------------------------------------------------------------------------
(* shutdown(): srem, then drain the own processing list; the process ends *)

ShutdownSrem(i) ==
  /\ \/ st[i] = "new"
     \/ AtYield(i) /\ hpc[i] = "sleep"
  /\ active' = active \ {i}
  /\ st' = [st EXCEPT ![i] = "stopping"]
  /\ pc' = [pc EXCEPT ![i] = "claim"]
  /\ cur' = [cur EXCEPT ![i] = None]
  /\ UNCHANGED <<submitted, storeVars, started, last_heartbeat, hbVars,
                 faults>>

\* A shutdown that empties the own processing list without the push.
\* Variant for testing Durable.
ShutdownDrop(i) ==
  /\ st[i] = "stopping"
  /\ IF processing[i] # <<>>
     THEN /\ processing' = [processing EXCEPT ![i] = RPopRest(@)]
          /\ UNCHANGED <<pending, st>>
     ELSE /\ st' = [st EXCEPT ![i] = "down"]
          /\ UNCHANGED <<pending, processing>>
  /\ UNCHANGED <<submitted, completed, review, failed, regVars, loopVars,
                 hbVars, faults>>

\* the while loop of shutdown: rpoplpush(processing:<i>, pending) until empty
ShutdownDrain(i) ==
  /\ st[i] = "stopping"
  /\ IF processing[i] # <<>>
     THEN /\ RPopLPush(i)
          /\ UNCHANGED st
     ELSE /\ st' = [st EXCEPT ![i] = "down"]
          /\ UNCHANGED <<pending, processing>>
  /\ UNCHANGED <<submitted, completed, review, failed, regVars, loopVars,
                 hbVars, faults>>

\* the process is killed
Crash(i) ==
  /\ st[i] \in {"up", "stopping"}
  /\ st' = [st EXCEPT ![i] = "crashed"]
  /\ pc' = [pc EXCEPT ![i] = "claim"]
  /\ cur' = [cur EXCEPT ![i] = None]
  /\ hpc' = [hpc EXCEPT ![i] = "sleep"]
  /\ scanSet' = [scanSet EXCEPT ![i] = {}]
  /\ victim' = [victim EXCEPT ![i] = None]
  /\ UNCHANGED <<submitted, storeVars, regVars, faults>>

----------------------------------------------------------------------------
(* the clock: TickLen seconds pass.  The one second of a backoff and the   *)
(* few Redis commands of a heartbeat iteration are short against that:     *)
(* time is taken to pass between them, not inside them.                    *)

Older(a) == IF a = NoStamp THEN NoStamp
            ELSE IF a + TickLen > AgeCap THEN AgeCap
            ELSE a + TickLen

Tick ==
  /\ \A i \in Orchs : st[i] = "up" => LoopRuns(i) /\ pc[i] # "backoff"
  /\ started' = [o \in Orchs |-> Older(started[o])]
  /\ last_heartbeat' = [o \in Orchs |-> Older(last_heartbeat[o])]
  /\ UNCHANGED <<submitted, storeVars, active, st, loopVars, hbVars, faults>>

----------------------------------------------------------------------------
\* the task loop as long as no Redis command raises
TaskLoopOk(i) ==
  \/ Claim(i)
  \/ ClaimEmpty(i)
  \/ \E s \in Statuses, x \in ScoreSamples, u \in BOOLEAN : Route(i, s, x, u)
  \/ Publish(i)
  \/ Lrem(i)
  \/ Backoff(i)

TaskLoop(i) ==
  \/ TaskLoopOk(i)
  \/ IOError(i)

Heartbeat(i) ==
  \/ HbWrite(i)
  \/ HbSmembers(i)
  \/ \E o \in Orchs : HbScan(i, o)
  \/ HbScanDone(i)
  \/ Drain(i)
  \/ Srem(i)

\* The general specification: two instances and one task, every operation.
Pair == {"A", "B"}
OneTask == {"t1"}

Next ==
  /\ UNCHANGED <<pipeVars, agentVars, monVars>>
  /\ \/ \E t \in OneTask : Submit(t)
     \/ \E i \in Pair : Register(i)
     \/ \E i \in Pair : TaskLoop(i)
     \/ \E i \in Pair : Heartbeat(i)
     \/ \E i \in Pair : ShutdownSrem(i)
     \/ \E i \in Pair : ShutdownDrain(i)
     \/ \E i \in Pair : Crash(i)
     \/ Tick

Spec == Init /\ [][Next]_vars

----------------------------------------------------------------------------
(* Failover among three instances.  The runs start where instance A has    *)
(* been killed: A claimed t1, ran into an exception and claimed t2 (or     *)
(* claimed t1 only), wrote a heartbeat from inside an agent call and       *)
(* died; more than heartbeat_timeout has passed since; B and C registered  *)
(* later and each sleeps in the backoff of a failed brpoplpush.  The clock  *)
(* is left out: A is already out of date, and B and C stay in date.       *)

Dead == "A"
Peers == {"B", "C"}

InitDrain ==
  /\ submitted = Tasks
  /\ \/ pending = <<>> /\ processing = [o \in Orchs |->
                                         IF o = Dead THEN <<"t2", "t1">> ELSE <<>>]
     \/ pending = <<"t2">> /\ processing = [o \in Orchs |->
                                         IF o = Dead THEN <<"t1">> ELSE <<>>]
  /\ completed = <<>>
  /\ review = <<>>
  /\ failed = <<>>
  /\ active = Orchs
  /\ started = [o \in Orchs |-> IF o = Dead THEN AgeCap ELSE 0]
  /\ last_heartbeat = [o \in Orchs |-> IF o = Dead THEN AgeCap ELSE NoStamp]
  /\ st = [o \in Orchs |-> IF o = Dead THEN "crashed" ELSE "up"]
  /\ pc = [o \in Orchs |-> IF o = Dead THEN "claim" ELSE "backoff"]
  /\ cur = [o \in Orchs |-> None]
  /\ hpc = [o \in Orchs |-> "sleep"]
  /\ scanSet = [o \in Orchs |-> {}]
  /\ victim = [o \in Orchs |-> None]
  /\ faults = 0
  /\ PipeIdle /\ AgentIdle /\ MonitorIdle

NextDrain ==
  /\ UNCHANGED <<pipeVars, agentVars, monVars>>
  /\ \/ \E i \in Peers : TaskLoop(i)
     \/ \E i \in Peers : Heartbeat(i)
     \/ \E i \in Peers : Crash(i)

DrainSpec == InitDrain /\ [][NextDrain]_vars

\* The event loop of a live peer keeps running its heartbeat iteration.
DrainFairSpec ==
  DrainSpec /\ \A i \in Peers : WF_orchVars(Heartbeat(i))

----------------------------------------------------------------------------
(* Progress.  Instance B is never killed; A may be, at any point.  The     *)
(* scheduler is weakly fair to every process: a registration and a step   *)
(* of the heartbeat iteration that stays possible is taken, and time       *)
(* passes.  A heartbeat iteration starts once per interval and hands the   *)
(* event loop back when it is over, so the task loop is not starved by     *)
(* it: a step of the task loop that is possible again and again is taken.  *)
(* Exceptions and kills are never forced.                                  *)

Survivor == "B"

NextFair ==
  /\ UNCHANGED <<pipeVars, agentVars, monVars>>
  /\ \/ \E t \in OneTask : Submit(t)
     \/ \E i \in Pair : Register(i)
     \/ \E i \in Pair : TaskLoop(i)
     \/ \E i \in Pair : Heartbeat(i)
     \/ \E i \in Pair \ {Survivor} : Crash(i)
     \/ Tick

FairSpec ==
  /\ Init /\ [][NextFair]_vars
  /\ WF_orchVars(Tick)
  /\ \A i \in Pair : /\ WF_orchVars(Register(i))
                     /\ SF_orchVars(TaskLoopOk(i))
                     /\ WF_orchVars(Heartbeat(i))

----------------------------------------------------------------------------
(* process_task_through_waves: one task through the agent waves *)

\* Agents that are not loaded or whose analyze raises, per task.
MaxDegraded == 2

\* line numbers of findings
Lines == {12, 40}

\* what a loaded agent's analyze returns: a confident result, for the
\* detector with or without a finding
Returns(a) ==
  IF a = detector THEN {Ok(9, <<>>), Ok(9, <<12>>)} ELSE {Ok(9, <<>>)}

\* the agent of the current iteration, if one is left
Current == IF wpos <= Len(AgentOrder) THEN AgentOrder[wpos] ELSE None

InWaves == phase = "waves" /\ wpos <= Len(AgentOrder)

Degraded ==
  Cardinality(Agents \ loaded)
    + Cardinality({a \in Agents : waves[a].kind = "error"})

\* if agent_name in self.agents: is false, the iteration does nothing
SkipAgent ==
  /\ InWaves /\ Current \notin loaded
  /\ wpos' = wpos + 1
  /\ UNCHANGED <<loaded, phase, waves, context, called, passed, check, tdai,
                 pushes>>

\* await agent.analyze(transcript, context) returns r: the result is stored
\* in wave_results and in the context
AgentReturns(r) ==
  /\ InWaves /\ Current \in loaded
  /\ called' = Append(called, Current)
  /\ passed' = [passed EXCEPT ![Current] = context]
  /\ waves' = [waves EXCEPT ![Current] = r]
  /\ context' = context \cup {Current}
  /\ wpos' = wpos + 1
  /\ UNCHANGED <<loaded, phase, check, tdai, pushes>>

\* A raising agent that ends the call: the exception leaves
\* process_task_through_waves.  Variant for testing Isolation.
AgentAborts ==
  /\ InWaves /\ Current \in loaded
  /\ Degraded < MaxDegraded
  /\ called' = Append(called, Current)
  /\ passed' = [passed EXCEPT ![Current] = context]
  /\ phase' = "done"
  /\ UNCHANGED <<loaded, wpos, waves, context, check, tdai, pushes>>

\* await agent.analyze(transcript, context) raises: except Exception stores
\* the error stub in wave_results; the context is not touched
AgentRaises ==
  /\ InWaves /\ Current \in loaded
  /\ Degraded < MaxDegraded
  /\ called' = Append(called, Current)
  /\ passed' = [passed EXCEPT ![Current] = context]
  /\ waves' = [waves EXCEPT ![Current] = ErrorStub]
  /\ wpos' = wpos + 1
  /\ UNCHANGED <<loaded, phase, context, check, tdai, pushes>>

----------------------------------------------------------------------------
(* thermopylae_cross_validation *)

\* A cross-validation for which any validator finding confirms every
\* detector finding.  Variant for testing CrossValidation.
thermopylae_any_match(w) ==
  IF w[detector].kind = "absent" \/ w[validator].kind = "absent"
  THEN [status |-> "incomplete", disagreements |-> <<>>]
  ELSE LET dis == IF w[validator].findings # <<>> THEN <<>>
                  ELSE w[detector].findings
       IN  [status |-> IF dis # <<>> THEN "review_required" ELSE "clear",
            disagreements |-> dis]

\* A cross-validation that takes a missing agent for agreement.  Variant
\* for testing IncompleteWhenMissing.
thermopylae_silent(w) ==
  LET unmatched(ln) ==
        \A k \in 1..Len(w[validator].findings) : w[validator].findings[k] # ln
      dis == SelectSeq(w[detector].findings, unmatched)
  IN  [status |-> IF dis # <<>> THEN "review_required" ELSE "clear",
       disagreements |-> dis]

\* the detector's and the validator's entries of wave 3; a missing one gives
\* 'incomplete'; else one disagreement per detector finding whose
\* line_number no validator finding has
thermopylae_cross_validation(w) ==
  IF w[detector].kind = "absent" \/ w[validator].kind = "absent"
  THEN [status |-> "incomplete", disagreements |-> <<>>]
  ELSE LET unmatched(ln) ==
             \A k \in 1..Len(w[validator].findings) :
                w[validator].findings[k] # ln
           dis == SelectSeq(w[detector].findings, unmatched)
       IN  [status |-> IF dis # <<>> THEN "review_required" ELSE "clear",
            disagreements |-> dis]

\* the for loops are over: results['thermopylae_check'] is set and
\* process_task_through_waves returns
CrossValidate ==
  /\ phase = "waves" /\ wpos > Len(AgentOrder)
  /\ check' = thermopylae_cross_validation(waves)
  /\ phase' = "handle"
  /\ UNCHANGED <<loaded, wpos, waves, context, called, passed, tdai, pushes>>

----------------------------------------------------------------------------
(* calculate_tdai_score.  Dimension scores are in tenths of a point, weights *)
(* in hundredths, the composite in thousandths of a point; the arithmetic    *)
(* is exact.                                                                 *)

\* .get('confidence', 0.5)
DefaultConfidence == 5
\* max(0, 10 - gap_count * 0.5): half a point per gap, in tenths
GapPenalty == 5
\* a dimension's full score, 10 points, in tenths
FullScore == 100

\* weights, in hundredths, by the agent a dimension is taken from
weights ==
  [a \in {"emotional_intelligence", "somatic_awareness", "research_connector",
          "gaps_identifier", "cultural_context", "forensic_accuracy",
          "academic_rigor"} |->
     CASE a = "emotional_intelligence" -> 20
       [] a = "somatic_awareness" -> 20
       [] a = "research_connector" -> 15
       [] a = "gaps_identifier" -> 10
       [] a = "cultural_context" -> 10
       [] a = "forensic_accuracy" -> 15
       [] a = "academic_rigor" -> 10]

ScoringAgents == DOMAIN weights

\* No floor: the second argument as it is.  Variant for testing ScoreRange.
NoFloor(x, y) == y

Max(x, y) == IF x >= y THEN x ELSE y
Min(x, y) == IF x <= y THEN x ELSE y

\* A dimension whose agent is missing scored like a result without a
\* confidence key.  Variant for testing MissingAgentConservative.
DimensionScoreDefault(w, a) ==
  IF a = "gaps_identifier"
  THEN (IF w[a].kind = "absent" THEN FullScore
        ELSE Max(0, FullScore - Len(w[a].findings) * GapPenalty))
  ELSE (IF w[a].kind = "absent" \/ w[a].confidence = NoConf
        THEN DefaultConfidence
        ELSE w[a].confidence) * 10

\* the score of the dimension taken from agent a, in tenths of a point
DimensionScore(w, a) ==
  IF w[a].kind = "absent" THEN 0
  ELSE IF a = "gaps_identifier"
       THEN Max(0, FullScore - Len(w[a].findings) * GapPenalty)
  ELSE (IF w[a].confidence = NoConf THEN DefaultConfidence
        ELSE w[a].confidence) * 10

RECURSIVE WeightedSum(_, _)
WeightedSum(w, S) ==
  IF S = {} THEN 0
  ELSE LET a == CHOOSE x \in S : TRUE
       IN  DimensionScore(w, a) * weights[a] + WeightedSum(w, S \ {a})

\* min(10.0, total_score), in thousandths
calculate_tdai_score(w) ==
  Min(FullScore * 100, WeightedSum(w, ScoringAgents))

----------------------------------------------------------------------------
(* handle_task_results: score, destination, lpush *)

\* the queue handle_task_results pushes the result to; the composite is
\* compared in tenths, rounded down (the thresholds are whole tenths)
Queue(c, score) == Destination(c.status, score \div 100)

HandleTaskResults ==
  /\ phase = "handle"
  /\ tdai' = calculate_tdai_score(waves)
  /\ pushes' = Append(pushes, Queue(check, calculate_tdai_score(waves)))
  /\ phase' = "done"
  /\ UNCHANGED <<loaded, wpos, waves, context, called, passed, check>>

----------------------------------------------------------------------------
(* One task through the waves, with at most MaxDegraded agents missing or   *)
(* failing.                                                                 *)

InitWaves ==
  /\ StoreIdle /\ AgentIdle /\ MonitorIdle
  /\ loaded \in {S \in SUBSET Agents : Cardinality(Agents \ S) <= MaxDegraded}
  /\ wpos = 1
  /\ phase = "waves"
  /\ waves = [a \in Agents |-> Absent]
  /\ context = {}
  /\ called = <<>>
  /\ passed = [a \in Agents |-> {}]
  /\ check = NoCheck
  /\ tdai = NoScore
  /\ pushes = <<>>

NextWaves ==
  /\ UNCHANGED <<orchVars, agentVars, monVars>>
  /\ \/ SkipAgent
     \/ \E r \in Returns(Current) : AgentReturns(r)
     \/ AgentRaises
     \/ CrossValidate
     \/ HandleTaskResults

WaveSpec == InitWaves /\ [][NextWaves]_vars

\* The call goes on: the event loop resumes the coroutine after every await.
WaveFairSpec == WaveSpec /\ WF_pipeVars(NextWaves)

----------------------------------------------------------------------------
(* The functions of the results alone: the runs start where the for loops   *)
(* of process_task_through_waves are over, with a waves map drawn from      *)
(* sample results.                                                          *)

\* findings of the detector and of the validator
FindingSeqs ==
  {<<>>} \cup {<<x>> : x \in Lines} \cup {<<x, y>> : x \in Lines, y \in Lines}

CrossOutcomes == {Absent, ErrorStub} \cup {Ok(9, f) : f \in FindingSeqs}

\* a scoring agent is missing, has failed, or returns a low or a full
\* confidence
ConfOutcomes == {Absent, ErrorStub, Ok(3, <<>>), Ok(10, <<>>)}

\* gaps_identifier is missing, has failed, or returns no, two or twenty gaps
GapOutcomes ==
  {Absent, ErrorStub, Ok(9, <<>>), Ok(9, <<12, 40>>),
   Ok(9, [k \in 1..20 |-> 12])}

\* detector and validator disagree, agree, or one is missing
CrossSamples ==
  {<<Ok(9, <<12>>), Ok(9, <<>>)>>, <<Ok(9, <<12>>), Ok(9, <<12>>)>>,
   <<Absent, Ok(9, <<>>)>>}

\* the state in which the for loops leave the call when the waves map is w
AfterWaves(w) ==
  /\ StoreIdle /\ AgentIdle /\ MonitorIdle
  /\ waves = w
  /\ loaded = {a \in Agents : w[a].kind # "absent"}
  /\ wpos = Len(AgentOrder) + 1
  /\ phase = "waves"
  /\ context = {a \in Agents : w[a].kind = "ok"}
  /\ called = SelectSeq(AgentOrder, LAMBDA a : w[a].kind # "absent")
  /\ passed = [a \in Agents |->
                 IF w[a].kind = "absent" THEN {}
                 ELSE {b \in Before(a) : w[b].kind = "ok"}]
  /\ check = NoCheck
  /\ tdai = NoScore
  /\ pushes = <<>>

InitCross ==
  \E d \in CrossOutcomes, v \in CrossOutcomes :
    AfterWaves([a \in Agents |->
                  IF a = detector THEN d
                  ELSE IF a = validator THEN v
                  ELSE Ok(9, <<>>)])

InitScore ==
  \E e \in ConfOutcomes, so \in ConfOutcomes, rc \in ConfOutcomes,
     cc \in ConfOutcomes, fa \in ConfOutcomes, ar \in ConfOutcomes,
     g \in GapOutcomes, x \in CrossSamples :
    AfterWaves([a \in Agents |->
                  CASE a = "emotional_intelligence" -> e
                    [] a = "somatic_awareness" -> so
                    [] a = "research_connector" -> rc
                    [] a = "cultural_context" -> cc
                    [] a = "forensic_accuracy" -> fa
                    [] a = "academic_rigor" -> ar
                    [] a = "gaps_identifier" -> g
                    [] a = detector -> x[1]
                    [] a = validator -> x[2]
                    [] OTHER -> Ok(9, <<>>)])

NextResults ==
  /\ UNCHANGED <<orchVars, agentVars, monVars>>
  /\ \/ CrossValidate
     \/ HandleTaskResults

CrossSpec == InitCross /\ [][NextResults]_vars

ScoreSpec == InitScore /\ [][NextResults]_vars

\* every agent returns a result: the scoring agents a confidence of 0, 0.5
\* or 1.0, gaps_identifier no gap or more gaps than the floor allows for
MaxGaps == 21
RangeConf == {Ok(0, <<>>), Ok(5, <<>>), Ok(10, <<>>)}
RangeGaps == {Ok(0, <<>>), Ok(0, [k \in 1..MaxGaps |-> 12])}

InitRange ==
  \E e \in RangeConf, so \in RangeConf, rc \in RangeConf,
     cc \in RangeConf, fa \in RangeConf, ar \in RangeConf,
     g \in RangeGaps :
    AfterWaves([a \in Agents |->
                  CASE a = "emotional_intelligence" -> e
                    [] a = "somatic_awareness" -> so
                    [] a = "research_connector" -> rc
                    [] a = "cultural_context" -> cc
                    [] a = "forensic_accuracy" -> fa
                    [] a = "academic_rigor" -> ar
                    [] a = "gaps_identifier" -> g
                    [] OTHER -> Ok(0, <<>>)])

RangeSpec == InitRange /\ [][NextResults]_vars

----------------------------------------------------------------------------
(* An agent instance over several analyze calls.  A transcript is taken by  *)
(* what analyze looks at: whether validate_input accepts it, the number of  *)
(* findings per pattern key (lines that hold the term), and the confidence  *)
(* _assess_confidence gives its findings.                                   *)

\* analyze calls on one instance
MaxCalls == 2
\* if data['count'] >= 3
PatternThreshold == 3
\* 'strong' if data['count'] >= 5 else 'moderate'
StrongThreshold == 5
\* min(0.2, len(self.pattern_tracker) * 0.02), in hundredths
BoostPerKey == 2
MaxBoost == 20
\* min(1.0, ...), in hundredths
FullConfidence == 100

\* findings per key in one transcript
HitCounts == {0, 2, 3, 5}
\* _assess_confidence: base confidence and short context, in hundredths
Clarities == {70, 80}

Texts ==
  [valid : {"ok"}, hits : [PatternKeys -> HitCounts], clarity : Clarities]
  \cup [valid : {"oversize", "injection"},
        hits : {[k \in PatternKeys |-> 0]}, clarity : {70}]

\* validate_input returns the cleaned data; otherwise it raises ValueError
validate_input(t) == t.valid = "ok"

\* _track_patterns: every finding adds one to the count of its key
track_patterns(tr, hits) == [k \in PatternKeys |-> tr[k] + hits[k]]

\* _identify_patterns: over self.pattern_tracker
identify_patterns(tr) ==
  {[pattern |-> k, frequency |-> tr[k],
    strength |-> IF tr[k] >= StrongThreshold THEN "strong" ELSE "moderate"] :
     k \in {x \in PatternKeys : tr[x] >= PatternThreshold}}

\* _calculate_confidence: average finding confidence plus the pattern boost;
\* a key is in self.pattern_tracker once it had a finding
calculate_confidence(t, tr) ==
  IF \A k \in PatternKeys : t.hits[k] = 0 THEN 0
  ELSE Min(FullConfidence,
           t.clarity
             + Min(MaxBoost,
                   Cardinality({k \in PatternKeys : tr[k] > 0}) * BoostPerKey))

\* analyze on a transcript validate_input accepts
AnalyzeReturns(t) ==
  /\ calls < MaxCalls
  /\ validate_input(t)
  /\ calls' = calls + 1
  /\ text' = t
  /\ pattern_tracker' = track_patterns(pattern_tracker, t.hits)
  /\ outcome' =
       [kind |-> "ok", findings |-> t.hits,
        patterns |-> identify_patterns(track_patterns(pattern_tracker, t.hits)),
        confidence |->
          calculate_confidence(t, track_patterns(pattern_tracker, t.hits))]

\* analyze on a transcript validate_input rejects: the first statement of
\* analyze raises, nothing else runs
AnalyzeRaises(t) ==
  /\ calls < MaxCalls
  /\ ~validate_input(t)
  /\ calls' = calls + 1
  /\ text' = t
  /\ outcome' = Raised
  /\ UNCHANGED pattern_tracker

NextAgent ==
  /\ UNCHANGED <<orchVars, pipeVars, monVars>>
  /\ \/ \E t \in Texts : AnalyzeReturns(t)
     \/ \E t \in Texts : AnalyzeRaises(t)

AgentSpec == Init /\ [][NextAgent]_vars

----------------------------------------------------------------------------
(* monitor_batch, beside one running instance.  The runs start after       *)
(* process_batch has pushed t1 and t2, or where an instance pushed the      *)
(* result of t1, was killed before its lrem, and a peer has moved t1 back   *)
(* to pending and removed the instance from the active set.                 *)

Worker == "B"

QueueOf(q) ==
  CASE q = "completed" -> completed
    [] q = "review" -> review
    [] q = "failed" -> failed

\* len(completed) + len(review) + len(failed)
SeenCount ==
  Cardinality(seen["completed"]) + Cardinality(seen["review"])
    + Cardinality(seen["failed"])

\* one iteration of the for loop over the queues: lrange(queue_name, 0, -1),
\* then every task_id of the batch not yet in the set is added to it
MonitorRead ==
  /\ mpc \in Elems(QueueOrder)
  /\ seen' = [seen EXCEPT ![mpc] = @ \cup (Elems(QueueOf(mpc)) \cap submitted)]
  /\ mpc' = CASE mpc = "completed" -> "review"
             [] mpc = "review" -> "failed"
             [] mpc = "failed" -> "sleep"
  /\ UNCHANGED <<orchVars, pipeVars, agentVars>>

\* asyncio.sleep(1) is over and the while condition is tested: another
\* pass, or the return of the three lists
MonitorSleep ==
  /\ mpc = "sleep"
  /\ mpc' = IF SeenCount < Cardinality(submitted) THEN "completed"
            ELSE "returned"
  /\ UNCHANGED <<orchVars, pipeVars, agentVars, seen>>

InitMonitor ==
  /\ submitted = Tasks
  /\ \/ pending = <<"t2", "t1">> /\ completed = <<>> /\ review = <<>>
     \/ pending = <<"t1", "t2">> /\ completed = <<"t1">> /\ review = <<>>
     \/ pending = <<"t1", "t2">> /\ completed = <<>> /\ review = <<"t1">>
  /\ processing = [o \in Orchs |-> <<>>]
  /\ failed = <<>>
  /\ active = {Worker}
  /\ started = [o \in Orchs |-> IF o = "C" THEN NoStamp ELSE 0]
  /\ last_heartbeat = [o \in Orchs |-> NoStamp]
  /\ st = [o \in Orchs |-> CASE o = Worker -> "up"
                             [] o = "A" -> "crashed"
                             [] OTHER -> "new"]
  /\ pc = [o \in Orchs |-> "claim"]
  /\ cur = [o \in Orchs |-> None]
  /\ hpc = [o \in Orchs |-> "sleep"]
  /\ scanSet = [o \in Orchs |-> {}]
  /\ victim = [o \in Orchs |-> None]
  /\ faults = 0
  /\ PipeIdle /\ AgentIdle
  /\ seen = [q \in Elems(QueueOrder) |-> {}]
  /\ mpc = "completed"

NextMonitor ==
  \/ TaskLoop(Worker) /\ UNCHANGED <<pipeVars, agentVars, monVars>>
  \/ MonitorRead
  \/ MonitorSleep

MonitorSpec == InitMonitor /\ [][NextMonitor]_vars

----------------------------------------------------------------------------
(* Properties *)

\* a result for task t is on one of the terminal queues
HasResult(t) == t \in Elems(completed) \cup Elems(review) \cup Elems(failed)

ResultCount(t) == Count(completed, t) + Count(review, t) + Count(failed, t)

\* the instances whose processing list holds t
Owners(t) == {o \in Orchs : t \in Elems(processing[o])}

\* copies of task t on pending and on all processing lists
Copies(t) ==
  Count(pending, t) + Count(processing["A"], t) + Count(processing["B"], t)
    + Count(processing["C"], t)

\* instance i is between "claimed t" and "finished routing t"
Working(i, t) == st[i] = "up" /\ cur[i] = t /\ pc[i] \in {"work", "publish"}

\* the age of the last sign of life of o in the store
LastSign(o) == IF last_heartbeat[o] # NoStamp THEN last_heartbeat[o]
               ELSE started[o]

\* C1: in every reachable state of the general specification, under every
\* interleaving of claims, failover drains and shutdown drains, each task
\* is an element of at most one instance's processing list.
OneOwner == \A t \in Tasks : Cardinality(Owners(t)) <= 1

\* C1, the case: A was declared dead and removed by B's failover, and the
\* task is now claimed by B.
OneOwnerCase ==
  /\ st["A"] = "crashed" /\ last_heartbeat["A"] > heartbeat_timeout
  /\ "A" \notin active /\ processing["A"] = <<>>
  /\ Owners("t1") = {"B"}

\* C2: the terminal queues together never hold more than one result entry
\* for one task id.
OneResult == \A t \in Tasks : ResultCount(t) <= 1

\* In every initial state of DrainSpec t1 is in the processing list of the
\* dead instance.
HeldTask == "t1"

\* the step by which peer p's handle_orchestrator_failure for the dead
\* instance leaves its while loop
DrainCompletes(p) ==
  hpc[p] = "drain" /\ victim[p] = Dead /\ hpc'[p] = "srem"

\* the step by which peer p's handle_orchestrator_failure moves a task
DrainMoves(p) ==
  hpc[p] = "drain" /\ victim[p] = Dead /\ processing'[Dead] # processing[Dead]

\* C3 as stated: when a peer's handle_orchestrator_failure for the stopped
\* instance completes, the task the instance held is on tasks:pending
\* exactly once and the instance's processing list is empty.
OnPendingAfterDrain ==
  [][\A p \in Peers :
       DrainCompletes(p) =>
         Count(pending', HeldTask) = 1 /\ processing'[Dead] = <<>>]_vars

\* C3, amended: every move of the drain puts the task on tasks:pending
\* exactly once and leaves it in no processing list; when the drain
\* completes the stopped instance's processing list is empty and the task
\* it held has exactly one copy in the store, on tasks:pending or in the
\* processing list of an instance that has claimed it from there since,
\* or that instance has already routed it and removed it.
RequeuedOnce ==
  [][\A p \in Peers :
       /\ DrainMoves(p) =>
            ( /\ Count(pending', RPopValue(processing[Dead])) = 1
              /\ Head(pending') = RPopValue(processing[Dead])
              /\ \A o \in Orchs :
                   RPopValue(processing[Dead]) \notin Elems(processing'[o]) )
       /\ DrainCompletes(p) =>
            ( /\ processing'[Dead] = <<>>
              /\ Copies(HeldTask)' <= 1
              /\ (Copies(HeldTask)' = 1 \/ HasResult(HeldTask)') )
    ]_vars

\* C3, the case: a peer's drain of the dead instance has completed and the
\* task it held is back on pending.
RequeuedOnceCase ==
  \E p \in Peers :
    /\ hpc[p] = "srem" /\ victim[p] = Dead /\ st[p] = "up"
    /\ processing[Dead] = <<>> /\ Count(pending, HeldTask) = 1

\* C4: under weak fairness of the instances' steps, with instance B never
\* stopping, every task pushed onto tasks:pending eventually has a result
\* on a terminal queue.
EventualCompletion ==
  \A t \in OneTask : (t \in submitted) ~> HasResult(t)

\* C5: whenever a live instance's check_orchestrator_health examines a
\* member of orchestrators:active that has stopped and whose last sign of
\* life (its last heartbeat, or its registration when it never wrote one)
\* is older than the heartbeat timeout, it calls
\* handle_orchestrator_failure for it.
DetectsEveryCrash ==
  [][\A p \in Orchs, o \in Orchs :
       ( /\ st[p] = "up" /\ hpc[p] = "scan" /\ o \in ScanTargets(p)
         /\ scanSet'[p] = scanSet[p] \ {o}
         /\ st[o] = "crashed" /\ o \in active
         /\ LastSign(o) > heartbeat_timeout )
       => (hpc'[p] = "drain" /\ victim'[p] = o)]_vars

\* C6: no state has a task's result on a terminal queue while the task is
\* still in an instance's processing list.
AtomicCompletion ==
  \A t \in Tasks : HasResult(t) => Owners(t) = {}

\* C7: at no time are two instances both between "claimed t" and "finished
\* routing t" for the same task t.
OneWorker ==
  \A t \in Tasks : Cardinality({i \in Orchs : Working(i, t)}) <= 1

\* C8: while live peers run handle_orchestrator_failure for the same dead
\* instance, every step that changes the dead instance's processing list
\* moves its tail to the head of tasks:pending (so the list only shrinks
\* and each task in it is moved once), no step that changes that list or
\* tasks:pending changes the number of copies of any task, a drain leaves
\* its loop only on an empty list, and every drain leaves its loop.
DoubleDrain ==
  /\ [][
        /\ (processing'[Dead] # processing[Dead]) =>
             ( /\ processing[Dead] # <<>>
               /\ processing'[Dead] = RPopRest(processing[Dead])
               /\ pending' = LPush(pending, RPopValue(processing[Dead])) )
        /\ (processing'[Dead] # processing[Dead] \/ pending' # pending) =>
             (\A t \in Tasks : Copies(t)' = Copies(t))
        /\ \A p \in Peers :
             DrainCompletes(p) =>
               (processing[Dead] = <<>> /\ UNCHANGED <<pending, processing>>)
      ]_vars
  /\ \A p \in Peers :
       (hpc[p] = "drain" /\ victim[p] = Dead)
         ~> (hpc[p] # "drain" \/ st[p] # "up")

\* C8, the case: both peers have run their drain of the dead instance
\* concurrently, one is still in it and the other is past it, and every
\* task is back on pending.
DoubleDrainCase ==
  /\ hpc["B"] = "drain" /\ victim["B"] = Dead
  /\ hpc["C"] = "srem" /\ victim["C"] = Dead
  /\ processing[Dead] = <<>> /\ Len(pending) = Cardinality(Tasks)

\* C9: in every reachable state every task that was pushed onto
\* tasks:pending is on tasks:pending, in some instance's processing list,
\* or has a result on a terminal queue.
Durable ==
  \A t \in submitted : Copies(t) >= 1 \/ HasResult(t)

\* C9, the case: an instance stopped while it held the task in memory, and
\* the task is in its processing list only.
DurableCase ==
  \E i \in Pair :
    /\ st[i] \in {"crashed", "stopping"}
    /\ Owners("t1") = {i} /\ Count(pending, "t1") = 0 /\ ~HasResult("t1")

\* C10: a task left in the processing list of an instance whose task loop
\* ran into an exception and is in its backoff eventually has a result on
\* a terminal queue, unless the instance stops.
RetryAfterFailure ==
  \A i \in Pair, t \in OneTask :
    (st[i] = "up" /\ pc[i] = "backoff" /\ t \in Elems(processing[i])
       /\ ~HasResult(t))
      ~> (HasResult(t) \/ st[i] # "up")

\* C11: an instance that is running (claiming with the blocking pop,
\* running agents, routing) is never seen with a last_heartbeat older than
\* the heartbeat timeout.
FreshWhileRunning ==
  \A i \in Orchs : st[i] = "up" => ~AppearsDown(i)

\* C12: the queue handle_task_results pushes to is review when the
\* cross-validation status is review_required, whatever the score;
\* otherwise review when the score is below 8.0; otherwise completed; and
\* one call pushes to exactly one queue.
Routing ==
  phase = "done" =>
    /\ Len(pushes) = 1
    /\ pushes[1] = (IF check.status = "review_required" THEN "review"
                    ELSE IF tdai < AcceptThreshold * 100 THEN "review"
                    ELSE "completed")

\* C12, the case: a score of 9.5 or more with an unmatched detector finding
\* has gone to review.
RoutingCase ==
  /\ phase = "done" /\ check.status = "review_required"
  /\ tdai >= 9500 /\ pushes = <<"review">>

\* the places of the detector's findings that no validator finding matches
Unmatched ==
  {k \in 1..Len(waves[detector].findings) :
     waves[detector].findings[k] \notin Elems(waves[validator].findings)}

\* C13: when the detector's and the validator's results are both present,
\* the disagreement list has exactly one entry for each detector finding
\* whose line_number no validator finding has, and the status is
\* review_required iff the list is non-empty, otherwise clear.
CrossValidation ==
  ( /\ phase \in {"handle", "done"}
    /\ waves[detector].kind # "absent" /\ waves[validator].kind # "absent" )
  => /\ Len(check.disagreements) = Cardinality(Unmatched)
     /\ \A ln \in Lines :
          Count(check.disagreements, ln)
            = Cardinality({k \in Unmatched : waves[detector].findings[k] = ln})
     /\ check.status = (IF check.disagreements # <<>> THEN "review_required"
                        ELSE "clear")

\* C13, the case: the detector flags lines 12 and 40, the validator has a
\* finding at line 40 only: one disagreement, for line 12.
CrossValidationCase ==
  /\ phase = "handle"
  /\ waves[detector].findings = <<12, 40>>
  /\ waves[validator].findings = <<40>>
  /\ check = [status |-> "review_required", disagreements |-> <<12>>]

\* C14: the cross-validation status is incomplete whenever the detector's
\* or the validator's result is missing from the wave-3 results.
IncompleteWhenMissing ==
  ( /\ phase \in {"handle", "done"}
    /\ (waves[detector].kind = "absent" \/ waves[validator].kind = "absent") )
  => check.status = "incomplete"

\* C14, the case: the detector's result is missing, the validator has
\* findings, and the status is incomplete.
IncompleteCase ==
  /\ phase = "handle"
  /\ waves[detector].kind = "absent"
  /\ waves[validator].findings = <<12>>
  /\ check.status = "incomplete"

\* the loaded agents in the order of the iterations
LoadedOrder == SelectSeq(AgentOrder, LAMBDA a : a \in loaded)

\* C15: a raising agent does not end the call: every agent that was called
\* has its slot in the waves map filled, with its result or with the error
\* stub; the agents are called in the order of the iterations with no
\* loaded agent left out, whatever raised before; and the call ends with
\* the task scored and pushed to one queue.
Isolation ==
  /\ [](/\ \A k \in 1..Len(called) :
             /\ k <= Len(LoadedOrder) /\ called[k] = LoadedOrder[k]
             /\ waves[called[k]].kind \in {"ok", "error"}
        /\ phase \in {"handle", "done"} => called = LoadedOrder
        /\ phase = "done" => tdai # NoScore /\ Len(pushes) = 1)
  /\ <>(phase = "done")

\* C15, the case: the first agent of wave 1 and the detector raised, and
\* the task is scored and routed.
IsolationCase ==
  /\ phase = "done"
  /\ waves["forensic_accuracy"].kind = "error"
  /\ waves[detector].kind = "error"
  /\ called = AgentOrder /\ Len(pushes) = 1

\* C16: the agents are called in the order of the waves 1, 2, 3, 4; when an
\* agent is called every loaded agent of every earlier wave has returned
\* or failed; and the context an agent is given has no entry of a later
\* wave.
WaveBarrier ==
  /\ \A j \in 1..Len(called), k \in 1..Len(called) :
       j < k => WaveOf(called[j]) <= WaveOf(called[k])
  /\ \A a \in Elems(called), b \in loaded :
       WaveOf(b) < WaveOf(a) => waves[b].kind \in {"ok", "error"}
  /\ \A a \in Elems(called) : \A b \in passed[a] : WaveOf(b) <= WaveOf(a)

\* C16, the case: all agents are loaded and the agent of wave 4 has been
\* called, after an agent of wave 2 failed.
WaveBarrierCase ==
  /\ called = AgentOrder
  /\ waves["gaps_identifier"].kind = "error"
  /\ passed["integration_synthesis"] # {}

\* C17: the context given to an agent of wave n, n in 2..4, has an entry
\* for every agent of wave n-1 that was called, whether it returned a
\* result or failed.
BackwardComplete ==
  \A a \in Elems(called), b \in Elems(called) :
    WaveOf(b) = WaveOf(a) - 1 => b \in passed[a]

\* C18: the context given to an agent of wave n has no entry of another
\* agent of the same wave n.
WithinWaveIsolation ==
  \A a \in Elems(called) : \A b \in passed[a] : WaveOf(b) # WaveOf(a)

\* C19: a dimension whose agent is absent from the waves map or has failed
\* contributes 0: the score is the one of the waves map without the error
\* stubs.
FailedScoresZero ==
  phase = "done" =>
    tdai = calculate_tdai_score(
             [a \in Agents |-> IF waves[a].kind = "error" THEN Absent
                               ELSE waves[a]])

\* C20: replacing the successful result of one scoring agent by its absence
\* or by its failure never raises the score and never turns the
\* destination from review into completed.
ConservativeDegradation ==
  phase = "done" =>
    \A a \in ScoringAgents, r \in {Absent, ErrorStub} :
      waves[a].kind = "ok" =>
        LET w == [waves EXCEPT ![a] = r]
        IN  /\ calculate_tdai_score(w) <= tdai
            /\ ~ ( /\ pushes[1] = "review"
                   /\ Queue(thermopylae_cross_validation(w),
                            calculate_tdai_score(w)) = "completed" )

\* C21: for every agent of wave 2, the score of the waves map with the
\* agent's entry removed is at most the score with the entry present.
MissingAgentConservative ==
  phase = "done" =>
    \A a \in Elems(agent_waves[2]) :
      calculate_tdai_score([waves EXCEPT ![a] = Absent]) <= tdai

\* C21, the case: emotional_intelligence returned a result, and the score
\* without its entry is lower.
MissingAgentCase ==
  /\ phase = "done"
  /\ waves["emotional_intelligence"].kind = "ok"
  /\ calculate_tdai_score(
       [waves EXCEPT !["emotional_intelligence"] = Absent]) < tdai

\* C22: when every agent returns an empty findings list with confidence 0,
\* the score is 0 and the result is pushed to review.
EmptyTranscript ==
  (phase = "done" /\ \A a \in Agents : waves[a] = Ok(0, <<>>))
  => tdai = 0 /\ pushes = <<"review">>

\* C23: for confidences from 0 to 1 and any number of gaps, the score is
\* the weighted sum over the seven dimensions, the weights sum to 1.0, and
\* the score is at least 0 and at most 10.
ScoreRange ==
  phase = "done" =>
    /\ Cardinality(ScoringAgents) = 7
    /\ weights["emotional_intelligence"] + weights["somatic_awareness"]
         + weights["research_connector"] + weights["gaps_identifier"]
         + weights["cultural_context"] + weights["forensic_accuracy"]
         + weights["academic_rigor"] = 100
    /\ tdai = WeightedSum(waves, ScoringAgents)
    /\ 0 <= tdai /\ tdai <= FullScore * 100

\* C23, the case: more gaps than the floor allows for and every confidence
\* 0: the score is 0, not below.
ScoreRangeCase ==
  /\ phase = "done"
  /\ Len(waves["gaps_identifier"].findings) = MaxGaps
  /\ tdai = 0

\* C29: a result is pushed to completed only if the cross-validation status
\* is clear and the detector and the validator both returned a result with
\* a findings list.
SecurityGate ==
  pushes = <<"completed">> =>
    /\ check.status = "clear"
    /\ waves[detector].kind = "ok"
    /\ waves[validator].kind = "ok"

\* C24: when the publish of the vocabulary updates raises, the task has
\* left the owner's processing list: the completion does not depend on the
\* publish.
PublishOutsideCompletion ==
  [][\A i \in Orchs :
       (pc[i] = "publish" /\ pc'[i] = "backoff")
       => cur[i] \notin Elems(processing'[i])]_vars

\* the recorded heartbeat of o is more than heartbeat_timeout old
Stale(o) ==
  last_heartbeat[o] # NoStamp /\ last_heartbeat[o] > heartbeat_timeout

Recoverable ==
  \A i \in Orchs : processing[i] # <<>> => i \in active

\* C25: analyze never raises, and for a transcript that fails the
\* validation it returns a result without findings.
AnalyzeNeverRaises ==
  calls > 0 =>
    /\ outcome.kind = "ok"
    /\ text.valid # "ok" => \A k \in PatternKeys : outcome.findings[k] = 0

\* what a fresh instance returns for the transcript t
FreshOutcome(t) ==
  [kind |-> "ok", findings |-> t.hits,
   patterns |-> identify_patterns(t.hits),
   confidence |-> calculate_confidence(t, t.hits)]

\* C26: whatever was analyzed before on the instance, the patterns returned
\* have an entry for a key iff the key has at least 3 findings in the
\* transcript of the call, with that number of findings as frequency, and
\* the confidence is the one a fresh instance returns.
Stateless ==
  (calls > 0 /\ outcome.kind = "ok") =>
    /\ \A k \in PatternKeys :
         /\ (\E p \in outcome.patterns : p.pattern = k)
              <=> text.hits[k] >= PatternThreshold
         /\ \A p \in outcome.patterns :
              p.pattern = k => p.frequency = text.hits[k]
    /\ outcome.confidence = FreshOutcome(text).confidence

\* the lists of the returned map that hold task t
ListsOf(t) == {q \in Elems(QueueOrder) : t \in seen[q]}

\* C30: monitor_batch returns only when every task of the batch has a
\* result on a terminal queue, and every task of the batch is in exactly
\* one of the lists returned.
MonitorSound ==
  mpc = "returned" =>
    \A t \in submitted : HasResult(t) /\ Cardinality(ListsOf(t)) = 1

====
